---- MODULE Spec2Model ----
(***************************************************************************)
(* Model of the sports-highlights pipeline:                                *)
(*   app/pipeline.py            main() and its helper steps                *)
(*   app/mediaconvert_client.py poll_job()                                 *)
(* Three specifications share the module:                                  *)
(*   Spec      one run of main() against a fallible environment            *)
(*   SpecPick  pick_random_video_from_json() on bounded documents          *)
(*   SpecPoll  poll_job() against a remote job and a clock                 *)
(***************************************************************************)
EXTENDS Integers, Sequences, FiniteSets, TLC

VARIABLES
    \* ---- main() ----
    pc,            \* position of main(): the step about to run
    cfg,           \* Config: which buckets are configured
    highlights,    \* value returned by fetch_highlights()
    video_url,     \* value returned by pick_random_video_from_json()
    localFile,     \* state of local_video_path on disk
    calls,         \* how often each external step was attempted
    s3,            \* objects written by upload_file_to_s3: set of [bucket, key]
    logObjects,    \* bodies written by upload_logs' put_object, in order
    logPutResults, \* outcome of each put_object attempted by upload_logs
    diag,          \* warning/error/outcome records of the diagnostic stream
    exc,           \* message of the exception main() is handling / has handled
    logKeys,       \* keys of the objects written by upload_logs, in order
    responses,     \* what the remote services answered in this run, by step
    wall,          \* the wall clock read by datetime.now(), in ticks
    run,           \* which execution of main() this is
    prev,          \* what the previous execution wrote and was answered
    \* ---- pick_random_video_from_json() ----
    pickPc, pickDoc, candidates, picked,
    \* ---- poll_job() ----
    pollPc,        \* position of poll_job(): call, query, sleep, returned, raised
    now,           \* the clock read by time.time()
    invoked,       \* the clock when poll_job was invoked
    started,       \* poll_job's local `started`
    interval, timeout,
    status,        \* poll_job's local `status`: the last status read
    pollResult,    \* the status poll_job returned
    queries,       \* get_job calls made
    sleeps,        \* time.sleep calls made
    lastDur,       \* time the last get_job call took
    queryErr,      \* a get_job call has raised
    mcRequests,    \* the MediaConvert operations poll_job has requested
    job            \* the remote job's true status

mainVars == <<pc, cfg, highlights, video_url, localFile, calls, s3,
              logObjects, logPutResults, diag, exc, logKeys, responses, wall, run, prev>>
\* what no step of a run changes
runVars == <<cfg, wall, run, prev>>
pickVars == <<pickPc, pickDoc, candidates, picked>>
pollVars == <<pollPc, now, invoked, started, interval, timeout, status, pollResult,
              queries, sleeps, lastDur, queryErr, mcRequests, job>>
vars == <<mainVars, pickVars, pollVars>>

(***************************************************************************)
(* Documents: the JSON tree returned by the metadata API.  A string is a   *)
(* sequence of tokens, so that prefix and suffix tests are computed.       *)
(* A map node lists its values in iteration order; keys are not read by    *)
(* the traversal.                                                          *)
(***************************************************************************)
\* Largest number of nodes of a document given to the selector.
MaxNodes == 3
\* Largest number of nodes of a document returned by the fetch in a run.
MaxFetchNodes == 2

\* Python's None where a string is expected
NoneVal == <<"<None>">>
\* Python's None where a document is expected (also what JSON null parses to)
Null == [t |-> "null"]

\* The token "http" stands for the scheme and host part "http://x/".
UrlA == <<"http", "a", ".mp4">>
UrlB == <<"http", "b", ".mp4">>

Strings ==
    { <<>>, <<"x">>, <<"http", "a">>, <<"a", ".mp4">>, UrlA,
      <<".mp4", "http">> }

Str(s) == [t |-> "str", s |-> s]
List(items) == [t |-> "list", items |-> items]
Map(items) == [t |-> "map", items |-> items]

Leaves ==
    { Str(s) : s \in Strings } \cup { [t |-> "num", n |-> 0], [t |-> "num", n |-> 1],
                                       Null }

RECURSIVE DocsExact(_), Forests(_)
\* Documents with exactly n nodes.
DocsExact(n) ==
    IF n = 1
    THEN Leaves \cup { List(<<>>), Map(<<>>) }
    ELSE { List(f) : f \in Forests(n - 1) } \cup { Map(f) : f \in Forests(n - 1) }
\* Non-empty sequences of documents with m nodes in total.
Forests(m) ==
    UNION { { <<d>> \o f : d \in DocsExact(k),
                           f \in (IF k = m THEN { <<>> } ELSE Forests(m - k)) }
            : k \in 1..m }

DocsUpTo(n) == UNION { DocsExact(k) : k \in 1..n }

\* {"events": [{"clip": a}, {"clip": b}]}
ScenarioDoc == Map(<< List(<< Map(<< Str(UrlA) >>), Map(<< Str(UrlB) >>) >>) >>)

PickDocs == DocsUpTo(MaxNodes) \cup { ScenarioDoc }
FetchDocs == DocsUpTo(MaxFetchNodes) \cup { ScenarioDoc, Map(<< List(<< Str(UrlA) >>) >>) }

(***************************************************************************)
(* pick_random_video_from_json                                             *)
(***************************************************************************)
endswith_mp4(v) == Len(v) > 0 /\ v[Len(v)] = ".mp4"
startswith_http(v) == Len(v) > 0 /\ v[1] = "http"

\* the test of pipeline.py line 49 on a map value
IsCandidate(v) == v.t = "str" /\ (endswith_mp4(v.s) \/ startswith_http(v.s))

\* a traversal that collects every string map value, qualifying or not
RECURSIVE walkAnyString(_)
walkAnyString(obj) ==
    LET RECURSIVE each(_, _)
        each(items, inMap) ==
            IF items = <<>> THEN <<>>
            ELSE (IF inMap /\ Head(items).t = "str"
                  THEN << Head(items).s >>
                  ELSE walkAnyString(Head(items))) \o each(Tail(items), inMap)
    IN  IF obj.t = "map" THEN each(obj.items, TRUE)
        ELSE IF obj.t = "list" THEN each(obj.items, FALSE)
        ELSE <<>>

\* a traversal that appends a qualifying map value and then descends into it,
\* where a qualifying string is appended again
RECURSIVE walkDescending(_)
walkDescending(obj) ==
    LET RECURSIVE each(_, _)
        each(items, inMap) ==
            IF items = <<>> THEN <<>>
            ELSE (IF inMap /\ IsCandidate(Head(items)) THEN << Head(items).s >> ELSE <<>>)
                 \o walkDescending(Head(items)) \o each(Tail(items), inMap)
    IN  IF obj.t = "map" THEN each(obj.items, TRUE)
        ELSE IF obj.t = "list" THEN each(obj.items, FALSE)
        ELSE IF IsCandidate(obj) THEN << obj.s >>
        ELSE <<>>

\* walk(obj): the candidates appended while traversing obj, in order
RECURSIVE walk(_)
walk(obj) ==
    LET RECURSIVE each(_, _)
        each(items, inMap) ==
            IF items = <<>> THEN <<>>
            ELSE (IF inMap /\ IsCandidate(Head(items))
                  THEN << Head(items).s >>
                  ELSE walk(Head(items))) \o each(Tail(items), inMap)
    IN  IF obj.t = "map" THEN each(obj.items, TRUE)
        ELSE IF obj.t = "list" THEN each(obj.items, FALSE)
        ELSE <<>>

Range(f) == { f[i] : i \in DOMAIN f }

\* the values random.choice(candidates) can return, None for an empty list
Choices(cands) == IF cands = <<>> THEN { NoneVal } ELSE Range(cands)

PickInit ==
    /\ pickPc = "ready"
    /\ pickDoc \in PickDocs
    /\ candidates = <<>>
    /\ picked = NoneVal

PickIdle ==
    /\ pickPc = "idle"
    /\ pickDoc = Null
    /\ candidates = <<>>
    /\ picked = NoneVal

\* one call of pick_random_video_from_json(pickDoc)
Pick ==
    /\ pickPc = "ready"
    /\ candidates' = walk(pickDoc)
    /\ picked' \in Choices(candidates')
    /\ pickPc' = "returned"
    /\ UNCHANGED <<pickDoc, mainVars, pollVars>>

(***************************************************************************)
(* main() and its steps.  Every external call draws its outcome from the   *)
(* outcomes the call can have.                                             *)
(***************************************************************************)
Configs == [METADATA_BUCKET : BOOLEAN, VIDEOS_BUCKET : BOOLEAN, LOGS_BUCKET : BOOLEAN]

\* requests.get / raise_for_status / response.json in fetch_highlights
FetchOutcomes == { "ok", "HTTPError", "TransportError", "DecodeError" }
\* an S3 call: done, botocore ClientError, or any other exception
\* (S3UploadFailedError, EndpointConnectionError, NoCredentialsError, OSError...)
PutOutcomes == { "ok", "ClientError", "OtherError" }
\* download_video: done, failed before open(dest_path), failed while streaming
DownloadOutcomes == { "ok", "error_before_open", "error_mid_stream" }

Rec(level, msg, arg) == [level |-> level, msg |-> msg, arg |-> arg]
Line(msg, arg) == [msg |-> msg, arg |-> arg]

\* a run that never tests what the fetch returned
FalsyUnchecked(d) == FALSE

\* Python truthiness of a parsed document: `not highlights`
Falsy(d) ==
    \/ d.t = "null"
    \/ d.t = "num" /\ d.n = 0
    \/ d.t = "str" /\ d.s = <<>>
    \/ d.t \in { "list", "map" } /\ d.items = <<>>

\* pathlib.Path(video_url).name or "video.mp4"
FileName(url) ==
    LET name == IF Len(url) > 0 /\ url[1] = "http" THEN Tail(url) ELSE url
    IN  IF name = <<>> THEN <<"video", ".mp4">> ELSE name

MetadataKey == [bucket |-> "METADATA_BUCKET", key |-> <<"highlights", "highlights.json">>]
VideoKey(url) == [bucket |-> "VIDEOS_BUCKET", key |-> <<"incoming">> \o FileName(url)]

\* Clock ticks per second of the log key's time stamp.
TicksPerSecond == 2
\* Longest time, in ticks, between two executions of main().
MaxGap == 2
\* Number of executions of main() followed.
MaxRuns == 2

NoResponses ==
    [fetch |-> [r |-> "none", body |-> Null], metadataPut |-> "none",
     download |-> "none", videoPut |-> "none"]

NoRun ==
    [s3 |-> {}, logKeys |-> <<>>, video_url |-> NoneVal, responses |-> NoResponses,
     logPutResults |-> <<>>, wall |-> 0]

\* the answers a step can get: any of S, or in a re-run the answer of the run before
Replay(step, S) ==
    IF run > 1 /\ prev.responses[step] \in S THEN { prev.responses[step] } ELSE S

\* the answers a log put can get, likewise
ReplayLogPut(S) ==
    LET k == Len(logPutResults) + 1
    IN  IF run > 1 /\ k \in DOMAIN prev.logPutResults
        THEN { prev.logPutResults[k] } ELSE S

\* a log key stamped with the clock at full resolution
LogKeyTicks == <<"pipeline_log", wall>>

\* f"pipeline_log_{datetime.now().strftime('%Y%m%d_%H%M%S')}.txt"
LogKey == <<"pipeline_log", wall \div TicksPerSecond>>

MainInit ==
    /\ pc = "fetch"
    /\ cfg \in Configs
    /\ logKeys = <<>>
    /\ responses = NoResponses
    /\ wall = 0
    /\ run = 1
    /\ prev = NoRun
    /\ highlights = Null
    /\ video_url = NoneVal
    /\ localFile = "absent"
    /\ calls = [fetch |-> 0, metadataPut |-> 0, select |-> 0, download |-> 0,
                videoPut |-> 0]
    /\ s3 = {}
    /\ logObjects = <<>>
    /\ logPutResults = <<>>
    /\ diag = <<>>
    /\ exc = "none"

MainIdle ==
    /\ pc = "idle"
    /\ logKeys = <<>>
    /\ responses = NoResponses
    /\ wall = 0
    /\ run = 1
    /\ prev = NoRun
    /\ cfg = [METADATA_BUCKET |-> FALSE, VIDEOS_BUCKET |-> FALSE, LOGS_BUCKET |-> FALSE]
    /\ highlights = Null
    /\ video_url = NoneVal
    /\ localFile = "absent"
    /\ calls = [fetch |-> 0, metadataPut |-> 0, select |-> 0, download |-> 0,
                videoPut |-> 0]
    /\ s3 = {}
    /\ logObjects = <<>>
    /\ logPutResults = <<>>
    /\ diag = <<>>
    /\ exc = "none"

\* fetch_highlights(): the value returned, given the outcome and the body
fetch_highlights(r, body) == IF r = "ok" THEN body ELSE Null

\* the record fetch_highlights() logs on failure
FetchLog(r) ==
    IF r = "ok" THEN <<>>
    ELSE IF r = "HTTPError"
         THEN << Rec("error", "HTTP error fetching highlights", "none") >>
         ELSE << Rec("error", "Error fetching highlights", "none") >>

\* the answers of the metadata API: a parsed body, or an error and no body
FetchResponses ==
    { [r |-> "ok", body |-> b] : b \in FetchDocs }
        \cup { [r |-> e, body |-> Null] : e \in FetchOutcomes \ { "ok" } }

\* 1) Fetch highlights; `if not highlights: raise RuntimeError`
Fetch ==
    /\ pc = "fetch"
    /\ \E f \in Replay("fetch", FetchResponses) :
         /\ highlights' = fetch_highlights(f.r, f.body)
         /\ diag' = diag \o FetchLog(f.r)
         /\ calls' = [calls EXCEPT !.fetch = @ + 1]
         /\ responses' = [responses EXCEPT !.fetch = f]
         /\ IF Falsy(highlights')
            THEN /\ exc' = "No highlights fetched from API"
                 /\ pc' = "except"
            ELSE /\ exc' = exc
                 /\ pc' = "save_metadata"
    /\ UNCHANGED <<runVars, video_url, localFile, s3, logObjects, logPutResults, logKeys>>
    /\ UNCHANGED <<pickVars, pollVars>>

\* upload_file_to_s3(bucket, key, local_path): what it logs, given the outcome
UploadFileLog(r) ==
    IF r = "ClientError" THEN << Rec("error", "Failed to upload to S3", "none") >>
    ELSE <<>>

\* upload_file_to_s3 lets through whatever is no ClientError
UploadFileRaises(r) == r = "OtherError"

\* a run that goes from the fetch straight to the selection
SaveMetadataSkipped ==
    /\ pc = "save_metadata"
    /\ pc' = "pick"
    /\ UNCHANGED <<calls, s3, diag, exc, responses>>
    /\ UNCHANGED <<runVars, highlights, video_url, localFile, logObjects, logPutResults,
                   logKeys>>
    /\ UNCHANGED <<pickVars, pollVars>>

\* 2) Save highlights JSON to S3
SaveMetadata ==
    /\ pc = "save_metadata"
    /\ IF cfg.METADATA_BUCKET
       THEN \E r \in Replay("metadataPut", PutOutcomes) :
              /\ calls' = [calls EXCEPT !.metadataPut = @ + 1]
              /\ responses' = [responses EXCEPT !.metadataPut = r]
              /\ s3' = IF r = "ok" THEN s3 \cup { MetadataKey } ELSE s3
              /\ diag' = diag \o UploadFileLog(r)
              /\ IF UploadFileRaises(r)
                 THEN exc' = "metadata upload error" /\ pc' = "except"
                 ELSE exc' = exc /\ pc' = "pick"
       ELSE /\ pc' = "pick"
            /\ UNCHANGED <<calls, s3, diag, exc, responses>>
    /\ UNCHANGED <<runVars, highlights, video_url, localFile, logObjects, logPutResults,
                   logKeys>>
    /\ UNCHANGED <<pickVars, pollVars>>

\* 3) Pick random video URL; `if not video_url: raise RuntimeError`
PickVideo ==
    /\ pc = "pick"
    /\ calls' = [calls EXCEPT !.select = @ + 1]
    /\ video_url' \in Choices(walk(highlights))
    /\ IF video_url' = NoneVal \/ video_url' = <<>>
       THEN exc' = "No video URL found in highlights" /\ pc' = "except"
       ELSE exc' = exc /\ pc' = "download"
    /\ UNCHANGED <<runVars, highlights, localFile, s3, logObjects, logPutResults, diag,
                   logKeys, responses>>
    /\ UNCHANGED <<pickVars, pollVars>>

\* download_video(url, dest_path): the file it leaves at dest_path
DownloadedFile(r) ==
    IF r = "ok" THEN "complete"
    ELSE IF r = "error_mid_stream" THEN "partial" ELSE "absent"

DownloadLog(r) ==
    IF r = "ok" THEN <<>> ELSE << Rec("error", "Failed to download video", "none") >>

\* 4) Download video; main() does not read download_video's return value
Download ==
    /\ pc = "download"
    /\ \E r \in Replay("download", DownloadOutcomes) :
         /\ localFile' = DownloadedFile(r)
         /\ diag' = diag \o DownloadLog(r)
         /\ responses' = [responses EXCEPT !.download = r]
    /\ calls' = [calls EXCEPT !.download = @ + 1]
    /\ pc' = "upload_video"
    /\ UNCHANGED <<runVars, highlights, video_url, s3, logObjects, logPutResults, exc,
                   logKeys>>
    /\ UNCHANGED <<pickVars, pollVars>>

\* outcomes of s3_client.upload_file(local_path, ...): a missing file is an OSError
VideoPutOutcomes == IF localFile = "absent" THEN { "OtherError" } ELSE PutOutcomes

\* 5) Upload video to S3
UploadVideo ==
    /\ pc = "upload_video"
    /\ IF cfg.VIDEOS_BUCKET
       THEN \E r \in Replay("videoPut", VideoPutOutcomes) :
              /\ calls' = [calls EXCEPT !.videoPut = @ + 1]
              /\ responses' = [responses EXCEPT !.videoPut = r]
              /\ s3' = IF r = "ok" THEN s3 \cup { VideoKey(video_url) } ELSE s3
              /\ diag' = diag \o UploadFileLog(r)
              /\ IF UploadFileRaises(r)
                 THEN exc' = "video upload error" /\ pc' = "except"
                 ELSE exc' = exc /\ pc' = "finish"
       ELSE /\ pc' = "finish"
            /\ UNCHANGED <<calls, s3, diag, exc, responses>>
    /\ UNCHANGED <<runVars, highlights, video_url, localFile, logObjects, logPutResults,
                   logKeys>>
    /\ UNCHANGED <<pickVars, pollVars>>

\* an upload_logs that puts the object without looking at LOGS_BUCKET
upload_logsUnguarded(content, r, d) ==
    /\ logPutResults' = Append(logPutResults, r)
    /\ logObjects' = IF r = "ok" THEN Append(logObjects, content) ELSE logObjects
    /\ logKeys' = IF r = "ok" THEN Append(logKeys, LogKey) ELSE logKeys
    /\ diag' = IF r = "ClientError"
               THEN Append(d, Rec("error", "Failed to upload logs", "none"))
               ELSE d

\* upload_logs(log_content) called with the diagnostic stream d and put outcome r
upload_logs(content, r, d) ==
    IF ~cfg.LOGS_BUCKET
    THEN /\ diag' = Append(d, Rec("warning", "LOGS_BUCKET not configured", "none"))
         /\ UNCHANGED <<logObjects, logPutResults, logKeys>>
    ELSE /\ logPutResults' = Append(logPutResults, r)
         /\ logObjects' = IF r = "ok" THEN Append(logObjects, content) ELSE logObjects
         /\ logKeys' = IF r = "ok" THEN Append(logKeys, LogKey) ELSE logKeys
         /\ diag' = IF r = "ClientError"
                    THEN Append(d, Rec("error", "Failed to upload logs", "none"))
                    ELSE d

\* upload_logs lets through whatever is no ClientError
UploadLogsRaises(r) == cfg.LOGS_BUCKET /\ r = "OtherError"

\* the success tail of the try block (lines 132-133)
Finish ==
    /\ pc = "finish"
    /\ \E r \in ReplayLogPut(PutOutcomes) :
         /\ upload_logs(<< Line("Pipeline completed successfully", "none") >>, r,
                        Append(diag, Rec("info", "Pipeline completed successfully", "none")))
         /\ IF UploadLogsRaises(r)
            THEN exc' = "log upload error" /\ pc' = "except"
            ELSE exc' = exc /\ pc' = "done"
    /\ UNCHANGED <<runVars, highlights, video_url, localFile, calls, s3, responses>>
    /\ UNCHANGED <<pickVars, pollVars>>

\* a handler that reports the failure and returns without calling upload_logs
ExceptNoUpload ==
    /\ pc = "except"
    /\ diag' = Append(diag, Rec("error", "Pipeline failed", exc))
    /\ pc' = "done"
    /\ UNCHANGED <<runVars, highlights, video_url, localFile, calls, s3, exc,
                   logObjects, logPutResults, logKeys, responses>>
    /\ UNCHANGED <<pickVars, pollVars>>

\* the handler `except Exception as e` (lines 135-137)
Except ==
    /\ pc = "except"
    /\ \E r \in ReplayLogPut(PutOutcomes) :
         /\ upload_logs(<< Line("Pipeline failed", exc) >>, r,
                        Append(diag, Rec("error", "Pipeline failed", exc)))
         /\ pc' = IF UploadLogsRaises(r) THEN "raised" ELSE "done"
    /\ UNCHANGED <<runVars, highlights, video_url, localFile, calls, s3, exc, responses>>
    /\ UNCHANGED <<pickVars, pollVars>>

MainNext == Fetch \/ SaveMetadata \/ PickVideo \/ Download \/ UploadVideo \/ Finish \/ Except

\* the trigger runs main() again, some time later, with the same configuration;
\* the services answer as they did in the run before
Rerun ==
    /\ pc \in { "done", "raised" }
    /\ run < MaxRuns
    /\ run' = run + 1
    /\ \E d \in 0..MaxGap : wall' = wall + d
    /\ prev' = [s3 |-> s3, logKeys |-> logKeys, video_url |-> video_url,
                responses |-> responses, logPutResults |-> logPutResults, wall |-> wall]
    /\ pc' = "fetch"
    /\ highlights' = Null
    /\ video_url' = NoneVal
    /\ localFile' = "absent"
    /\ calls' = [fetch |-> 0, metadataPut |-> 0, select |-> 0, download |-> 0,
                 videoPut |-> 0]
    /\ s3' = {}
    /\ logObjects' = <<>>
    /\ logPutResults' = <<>>
    /\ diag' = <<>>
    /\ exc' = "none"
    /\ logKeys' = <<>>
    /\ responses' = NoResponses
    /\ UNCHANGED cfg
    /\ UNCHANGED <<pickVars, pollVars>>

(***************************************************************************)
(* poll_job(mc_client, job_id, interval, timeout)                          *)
(***************************************************************************)
\* Largest interval and timeout tried, besides interval=10, timeout=30.
MaxInterval == 2
MaxTimeout == 3
\* Longest time one get_job call takes.
MaxLatency == 1
\* Latest clock value at which poll_job is invoked.
MaxStartTime == 1

PollConfigs == ((1..MaxInterval) \X (0..MaxTimeout)) \cup { <<10, 30>> }

JobStatuses == { "SUBMITTED", "PROGRESSING", "COMPLETE", "ERROR", "CANCELED" }
Terminal == { "COMPLETE", "ERROR", "CANCELED" }
NoStatus == "<none>"

PollInit ==
    /\ pollPc = "call"
    /\ now \in 0..MaxStartTime
    /\ invoked = now
    /\ started = 0
    /\ \E c \in PollConfigs : interval = c[1] /\ timeout = c[2]
    /\ status = NoStatus
    /\ pollResult = NoStatus
    /\ queries = 0
    /\ sleeps = 0
    /\ lastDur = 0
    /\ queryErr = FALSE
    /\ mcRequests = {}
    /\ job \in { "SUBMITTED", "PROGRESSING" }

PollIdle ==
    /\ pollPc = "idle"
    /\ now = 0
    /\ invoked = 0
    /\ started = 0
    /\ interval = 10
    /\ timeout = 1800
    /\ status = NoStatus
    /\ pollResult = NoStatus
    /\ queries = 0
    /\ sleeps = 0
    /\ lastDur = 0
    /\ queryErr = FALSE
    /\ mcRequests = {}
    /\ job = "SUBMITTED"

\* started = time.time()
PollStart ==
    /\ pollPc = "call"
    /\ started' = now
    /\ pollPc' = "query"
    /\ UNCHANGED <<now, invoked, interval, timeout, status, pollResult, queries, sleeps,
                   lastDur, queryErr, mcRequests, job>>
    /\ UNCHANGED <<mainVars, pickVars>>

\* a deadline test that allows one more interval
TimedOutLate(elapsed) == elapsed > timeout + interval

\* line 54: time.time() - started > timeout
TimedOut(elapsed) == elapsed > timeout

\* a loop that swallows a failed query and goes on to sleep
AfterQueryRetrying(ok, st, elapsed) ==
    IF ~ok THEN [pc |-> "sleep", result |-> NoStatus]
    ELSE IF st \in Terminal THEN [pc |-> "returned", result |-> st]
    ELSE IF TimedOut(elapsed) THEN [pc |-> "returned", result |-> "TIMEOUT"]
    ELSE [pc |-> "sleep", result |-> NoStatus]

\* a loop that tests the deadline before it looks at the status
AfterQueryDeadlineFirst(ok, st, elapsed) ==
    IF ~ok THEN [pc |-> "raised", result |-> NoStatus]
    ELSE IF TimedOut(elapsed) THEN [pc |-> "returned", result |-> "TIMEOUT"]
    ELSE IF st \in Terminal THEN [pc |-> "returned", result |-> st]
    ELSE [pc |-> "sleep", result |-> NoStatus]

\* lines 50-56 after get_job: propagate, return the status, return TIMEOUT, or sleep
AfterQuery(ok, st, elapsed) ==
    IF ~ok THEN [pc |-> "raised", result |-> NoStatus]
    ELSE IF st \in Terminal THEN [pc |-> "returned", result |-> st]
    ELSE IF TimedOut(elapsed) THEN [pc |-> "returned", result |-> "TIMEOUT"]
    ELSE [pc |-> "sleep", result |-> NoStatus]

\* a loop pass that also asks the service to cancel the job it gives up on
RequestsCancelOnTimeout(next) ==
    IF next.result = "TIMEOUT" THEN { "get_job", "cancel_job" } ELSE { "get_job" }

\* the operations one pass of the loop requests of mc_client: get_job alone
Requests(next) == { "get_job" }

\* the remote job after the service has served the requests: only a cancel
\* request changes a job that is still running
Served(j, reqs) ==
    IF "cancel_job" \in reqs /\ j \notin Terminal THEN "CANCELED" ELSE j

\* one pass of the loop body up to the sleep: get_job takes d time units and
\* either raises or reports the job's status
GetJob ==
    /\ pollPc = "query"
    /\ \E d \in 0..MaxLatency, ok \in BOOLEAN :
         LET next == AfterQuery(ok, job, (now + d) - started)
         IN  /\ now' = now + d
             /\ lastDur' = d
             /\ queries' = queries + 1
             /\ queryErr' = (queryErr \/ ~ok)
             /\ status' = IF ok THEN job ELSE status
             /\ pollPc' = next.pc
             /\ pollResult' = next.result
             /\ mcRequests' = mcRequests \cup Requests(next)
             /\ job' = Served(job, Requests(next))
    /\ UNCHANGED <<invoked, started, interval, timeout, sleeps>>
    /\ UNCHANGED <<mainVars, pickVars>>

\* time.sleep(interval)
Sleep ==
    /\ pollPc = "sleep"
    /\ now' = now + interval
    /\ sleeps' = sleeps + 1
    /\ pollPc' = "query"
    /\ UNCHANGED <<invoked, started, interval, timeout, status, pollResult, queries,
                   lastDur, queryErr, mcRequests, job>>
    /\ UNCHANGED <<mainVars, pickVars>>

\* the remote service moves the job on (or never does)
JobAdvance ==
    /\ pollPc # "idle"
    /\ \/ job = "SUBMITTED" /\ job' \in { "PROGRESSING", "CANCELED" }
       \/ job = "PROGRESSING" /\ job' \in Terminal
    /\ UNCHANGED <<pollPc, now, invoked, started, interval, timeout, status, pollResult,
                   queries, sleeps, lastDur, queryErr, mcRequests>>
    /\ UNCHANGED <<mainVars, pickVars>>

PollNext == PollStart \/ GetJob \/ Sleep \/ JobAdvance

(***************************************************************************)
(* Specifications                                                          *)
(***************************************************************************)
Init == MainInit /\ PickIdle /\ PollIdle
Next == MainNext
Spec == Init /\ [][Next]_vars

NextRerun == MainNext \/ Rerun
SpecRerun == Init /\ [][NextRerun]_vars

InitPick == MainIdle /\ PickInit /\ PollIdle
NextPick == Pick
SpecPick == InitPick /\ [][NextPick]_vars

InitPoll == MainIdle /\ PickIdle /\ PollInit
SpecPoll == InitPoll /\ [][PollNext]_vars

(***************************************************************************)
(* Properties of main(), checked under Spec                                *)
(***************************************************************************)
Ended == pc \in { "done", "raised" }

Logged(msg) == \E i \in DOMAIN diag : diag[i].msg = msg

\* the text lines of the diagnostic stream, in order
Lines(d) == [i \in DOMAIN d |-> Line(d[i].msg, d[i].arg)]

AllLogPutsOk == \A i \in DOMAIN logPutResults : logPutResults[i] = "ok"

\* C1: with a log bucket configured, and whichever of fetch, metadata put,
\* selection, download, video put fails (or none), main() ends with exactly one
\* log object written by exactly one put; no log object exists before the end
\* and never more than one.
C1_ExactlyOneLogObject ==
    cfg.LOGS_BUCKET =>
        /\ Len(logObjects) <= 1
        /\ ~Ended => logObjects = <<>>
        /\ (Ended /\ AllLogPutsOk) => Len(logObjects) = 1 /\ Len(logPutResults) = 1

C1_Witness ==
    /\ pc = "done" /\ cfg.LOGS_BUCKET /\ AllLogPutsOk
    /\ exc = "video upload error"
    /\ Len(logObjects) = 1

\* C2: main() always returns normally; a failed log upload is caught, is not
\* retried and does not become the run's failure reason.
C2_MainAlwaysReturns ==
    /\ pc # "raised"
    /\ Len(logPutResults) <= 1
    /\ exc # "log upload error"

\* C3: the log object written at finalization holds every record of the run,
\* in order: its content equals the accumulated diagnostic records.
C3_LogHoldsAllEvents ==
    \A i \in DOMAIN logObjects : logObjects[i] = Lines(diag)

DownloadFailed == calls.download = 1 /\ localFile # "complete"

\* C4: a run whose download did not succeed never reports
\* "Pipeline completed successfully".
C4_FailedDownloadIsFailure ==
    DownloadFailed => ~Logged("Pipeline completed successfully")

FetchFailed ==
    Logged("HTTP error fetching highlights") \/ Logged("Error fetching highlights")

\* C5: after a failed fetch the run aborts at once: one fetch, no metadata put,
\* no selection, no download, no video put, nothing stored; the failure is
\* reported, and upload_logs puts the log object (one put when a log bucket is
\* configured, the object written when the store accepts it).
C5_FetchFailureAborts ==
    FetchFailed =>
        /\ calls = [fetch |-> 1, metadataPut |-> 0, select |-> 0, download |-> 0,
                    videoPut |-> 0]
        /\ s3 = {}
        /\ pc \in { "except", "done", "raised" }
        /\ exc = "No highlights fetched from API"
        /\ Ended =>
             /\ \E i \in DOMAIN diag :
                    diag[i] = Rec("error", "Pipeline failed", "No highlights fetched from API")
             /\ ~Logged("Pipeline completed successfully")
             /\ cfg.LOGS_BUCKET =>
                  /\ Len(logPutResults) = 1
                  /\ logPutResults[1] = "ok" =>
                       logObjects = << << Line("Pipeline failed",
                                               "No highlights fetched from API") >> >>

C5_Witness ==
    /\ pc = "done"
    /\ Logged("HTTP error fetching highlights")
    /\ calls.fetch = 1
    /\ Len(logObjects) = 1

\* C6: a failed metadata put or video put, whatever the store raised, never
\* takes the run to the fatal path: after a failed metadata put the selection
\* still runs, after a failed video put the run still completes.
C6_PersistenceFailureIsAdvisory ==
    /\ exc \notin { "metadata upload error", "video upload error" }
    /\ (Ended /\ calls.metadataPut = 1) => calls.select = 1
    /\ (Ended /\ calls.videoPut = 1) => Logged("Pipeline completed successfully")

(***************************************************************************)
(* Properties of pick_random_video_from_json, checked under SpecPick       *)
(***************************************************************************)
\* every string of a document, wherever it stands
RECURSIVE AllStrings(_)
AllStrings(d) ==
    IF d.t = "str" THEN { d.s }
    ELSE IF d.t \in { "list", "map" }
         THEN UNION { AllStrings(d.items[i]) : i \in DOMAIN d.items }
         ELSE {}

Qualifying(d) == { s \in AllStrings(d) : endswith_mp4(s) \/ startswith_http(s) }

\* C7: for a document with a qualifying string at any position the result is
\* drawn from exactly the set of its qualifying strings; with none it is None.
C7_PicksFromExactlyTheQualifyingSet ==
    pickPc = "returned" =>
        IF Qualifying(pickDoc) # {}
        THEN picked \in Qualifying(pickDoc) /\ Range(candidates) = Qualifying(pickDoc)
        ELSE picked = NoneVal

\* C8: a result other than None is a qualifying string of the document; for
\* {events: [{clip: a}, {clip: b}]} it is a or b.
C8_ResultIsAQualifyingMember ==
    pickPc = "returned" =>
        /\ picked # NoneVal => picked \in Qualifying(pickDoc)
        /\ pickDoc = ScenarioDoc => picked \in { UrlA, UrlB }

C8_Witness == pickPc = "returned" /\ pickDoc = ScenarioDoc /\ picked = UrlB

(***************************************************************************)
(* Properties of poll_job, checked under SpecPoll                          *)
(***************************************************************************)
Returnable == Terminal \cup { "TIMEOUT" }

\* C9: poll_job returns no later than timeout + interval after it was invoked,
\* with one of COMPLETE, ERROR, CANCELED, TIMEOUT; interval=10, timeout=30 on a
\* job that stays PROGRESSING gives TIMEOUT within 40.
C9_ReturnsWithinTimeoutPlusInterval ==
    pollPc = "returned" =>
        /\ now - invoked <= timeout + interval
        /\ pollResult \in Returnable
        /\ (interval = 10 /\ timeout = 30 /\ status \notin Terminal) =>
              pollResult = "TIMEOUT" /\ now - invoked <= 40

\* C9 as amended: the bound is timeout + interval plus the time the last
\* status query took; the number of sleeps is bounded by the timeout.
C9_ReturnsWithinBoundPlusLastQuery ==
    /\ sleeps * interval <= timeout + interval
    /\ pollPc = "returned" =>
        /\ now - invoked <= timeout + interval + lastDur
        /\ pollResult \in Returnable
        /\ (interval = 10 /\ timeout = 30 /\ status \notin Terminal) =>
              pollResult = "TIMEOUT" /\ now - invoked <= 40 + lastDur

C9_Witness ==
    /\ pollPc = "returned" /\ pollResult = "TIMEOUT"
    /\ interval = 10 /\ timeout = 30
    /\ now - invoked = 41

\* C10: a failed status query ends poll_job at once with the failure: no
\* status is returned, and no further query or sleep follows.
C10_QueryFailurePropagates ==
    /\ [](queryErr => pollPc = "raised" /\ pollResult = NoStatus)
    /\ [][queryErr => (queries' = queries /\ sleeps' = sleeps /\ pollPc' = pollPc)]_vars

C10_Witness == pollPc = "raised" /\ queryErr /\ queries = 2 /\ sleeps = 1

\* C11: poll_job only reads the remote job: it requests nothing but get_job,
\* no step of poll_job changes the job's state, and the job can still move on
\* (to COMPLETE) after poll_job has returned TIMEOUT.
C11_PollingOnlyReads ==
    /\ [](mcRequests \subseteq { "get_job" })
    /\ [][(pollPc' # pollPc \/ queries' # queries \/ sleeps' # sleeps) => job' = job]_vars
    /\ [][(pollPc = "returned" /\ job \notin Terminal) => ENABLED JobAdvance]_vars

C11_Witness ==
    /\ pollPc = "returned" /\ pollResult = "TIMEOUT" /\ status = "PROGRESSING"
    /\ job = "COMPLETE"
    /\ mcRequests = { "get_job" }

(***************************************************************************)
(* Properties of two executions of main(), checked under SpecRerun         *)
(***************************************************************************)
\* C12: a re-run with the same configuration and the same remote responses
\* writes the same keys as the run before, whatever candidate is drawn and
\* whenever it runs.
C12_SameKeysOnRerun ==
    (run > 1 /\ Ended) => s3 = prev.s3 /\ logKeys = prev.logKeys

\* C12 as amended: the re-run writes the same metadata key and as many
\* objects; the video key is the same when both draws have the same file
\* name, the log key when both runs end within the same second.
C12_SameKeysUpToNameAndSecond ==
    (run > 1 /\ Ended) =>
        /\ MetadataKey \in s3 <=> MetadataKey \in prev.s3
        /\ Cardinality(s3) = Cardinality(prev.s3)
        /\ Len(logKeys) = Len(prev.logKeys)
        /\ FileName(video_url) = FileName(prev.video_url) => s3 = prev.s3
        /\ wall \div TicksPerSecond = prev.wall \div TicksPerSecond =>
              logKeys = prev.logKeys

C12_Witness ==
    /\ run = 2 /\ pc = "done"
    /\ Cardinality(s3) = 2 /\ s3 = prev.s3
    /\ Len(logKeys) = 1 /\ logKeys = prev.logKeys
    /\ wall # prev.wall

(***************************************************************************)
(* Further properties of main(), checked under Spec                        *)
(***************************************************************************)
VideoObjects == { o \in s3 : o.bucket = "VIDEOS_BUCKET" }

\* C13: a persistence step whose bucket is not configured makes no store
\* request and does not change the outcome: no metadata put without a
\* metadata bucket, no video put without a video bucket, and without a log
\* bucket no log put and no failure from finalization.
C13_UnconfiguredStepIsSkipped ==
    /\ [](~cfg.METADATA_BUCKET =>
            /\ calls.metadataPut = 0 /\ responses.metadataPut = "none"
            /\ MetadataKey \notin s3 /\ exc # "metadata upload error")
    /\ [](~cfg.VIDEOS_BUCKET =>
            /\ calls.videoPut = 0 /\ responses.videoPut = "none"
            /\ VideoObjects = {} /\ exc # "video upload error")
    /\ [](~cfg.LOGS_BUCKET =>
            /\ logPutResults = <<>> /\ logObjects = <<>> /\ logKeys = <<>>
            /\ pc # "raised" /\ exc # "log upload error")
    /\ [][(pc = "save_metadata" /\ ~cfg.METADATA_BUCKET) => (pc' = "pick" /\ exc' = exc)]_vars
    /\ [][(pc = "upload_video" /\ ~cfg.VIDEOS_BUCKET) => (pc' = "finish" /\ exc' = exc)]_vars
    /\ [][(pc \in { "finish", "except" } /\ ~cfg.LOGS_BUCKET) =>
             (pc' = "done" /\ exc' = exc)]_vars

C13_Witness ==
    /\ pc = "done"
    /\ ~cfg.METADATA_BUCKET /\ ~cfg.VIDEOS_BUCKET /\ ~cfg.LOGS_BUCKET
    /\ Logged("Pipeline completed successfully")
    /\ Logged("LOGS_BUCKET not configured")
    /\ calls.download = 1 /\ s3 = {}

\* C14: after a failed download no video object is written, also when the
\* download left a partial file.
C14_NoVideoObjectAfterFailedDownload ==
    DownloadFailed => VideoObjects = {}

\* the order of the steps: none is attempted before its predecessors, none twice
StepsInOrder ==
    /\ \A st \in DOMAIN calls : calls[st] <= 1
    /\ calls.metadataPut = 1 => calls.fetch = 1
    /\ calls.select = 1 => calls.fetch = 1 /\ (cfg.METADATA_BUCKET => calls.metadataPut = 1)
    /\ calls.download = 1 => calls.select = 1 /\ video_url # NoneVal
    /\ calls.videoPut = 1 => calls.download = 1
    /\ logPutResults # <<>> => calls.fetch = 1 /\ pc \in { "except", "done", "raised" }
    /\ (exc = "No video URL found in highlights" /\ cfg.METADATA_BUCKET) =>
          calls.metadataPut = 1

FetchReturned == calls.fetch = 1 /\ responses.fetch.r = "ok"

\* C15: the steps happen in the order fetch, metadata put, selection,
\* download, video put, log put; whenever the fetch returns a parsed document,
\* an empty one included, and a metadata bucket is configured, one metadata
\* put is attempted, before the selection.
C15_MetadataPutForEveryDocument ==
    /\ StepsInOrder
    /\ (FetchReturned /\ responses.fetch.body.t \in { "list", "map" }
          /\ cfg.METADATA_BUCKET /\ pc # "save_metadata") =>
            calls.metadataPut = 1

\* C15 as amended: the same for every document that Python takes as true; an
\* empty document ends the run like a failed fetch, before any metadata put.
C15_MetadataPutForEveryNonEmptyDocument ==
    /\ [](StepsInOrder)
    /\ []((FetchReturned /\ ~Falsy(responses.fetch.body)
              /\ cfg.METADATA_BUCKET /\ pc # "save_metadata") =>
                calls.metadataPut = 1)
    /\ []((FetchReturned /\ Falsy(responses.fetch.body)) =>
              /\ calls.metadataPut = 0 /\ calls.select = 0
              /\ exc = "No highlights fetched from API")
    /\ [][calls.select = 1 => calls'.metadataPut = calls.metadataPut]_vars
    /\ [][calls.download = 1 => calls'.select = calls.select]_vars
    /\ [][calls.videoPut = 1 => calls'.download = calls.download]_vars
    /\ [][logPutResults # <<>> => calls' = calls]_vars

C15_Witness ==
    /\ pc = "done" /\ exc = "No video URL found in highlights"
    /\ cfg.METADATA_BUCKET /\ calls.metadataPut = 1 /\ calls.select = 1
    /\ calls.download = 0 /\ Len(logPutResults) = 1

\* C17: a run that has reported "Pipeline completed successfully" never
\* reports "Pipeline failed" as well.
C17_AtMostOneOutcomeReport ==
    ~(Logged("Pipeline completed successfully") /\ Logged("Pipeline failed"))

(***************************************************************************)
(* Further properties of poll_job, checked under SpecPoll                  *)
(***************************************************************************)
\* C16: a terminal status read by a query is returned at once, whatever the
\* elapsed time; TIMEOUT is returned only when the last status read is not
\* terminal and the elapsed time is greater than timeout; at least one query
\* is made before any return, also with timeout 0.
C16_StatusBeforeDeadline ==
    /\ [](status \in Terminal => pollPc = "returned" /\ pollResult = status)
    /\ [](pollPc = "returned" =>
            /\ queries >= 1 /\ queries = sleeps + 1
            /\ pollResult = "TIMEOUT" =>
                  status \in JobStatuses \ Terminal /\ now - started > timeout)
    /\ [][pollPc = "returned" => (queries' = queries /\ sleeps' = sleeps /\ now' = now)]_vars

C16_Witness ==
    /\ pollPc = "returned" /\ pollResult = "COMPLETE"
    /\ now - started > timeout
    /\ sleeps >= 1

(***************************************************************************)
(* Further properties of pick_random_video_from_json, under SpecPick       *)
(***************************************************************************)
\* the qualifying string values of maps in a document, counted by occurrence
RECURSIVE MapValueOccurrences(_)
MapValueOccurrences(d) ==
    LET RECURSIVE sum(_, _)
        sum(items, i) ==
            IF i > Len(items) THEN 0
            ELSE (IF d.t = "map" /\ items[i].t = "str"
                     /\ items[i].s \in Qualifying(items[i])
                  THEN 1 ELSE MapValueOccurrences(items[i])) + sum(items, i + 1)
    IN  IF d.t \in { "list", "map" } THEN sum(d.items, 1) ELSE 0

\* C18: the traversal ends on every document, and every qualifying map value
\* is added once per occurrence: the candidate list is as long as there are
\* such occurrences, and holds nothing else.
C18_EachOccurrenceOnce ==
    /\ pickPc = "ready" => ENABLED Pick
    /\ pickPc = "returned" =>
        /\ Len(candidates) = MapValueOccurrences(pickDoc)
        /\ Range(candidates) \subseteq Qualifying(pickDoc)

C18_Witness ==
    /\ pickPc = "returned"
    /\ pickDoc = Map(<< Str(UrlA), Str(UrlA) >>)
    /\ candidates = << UrlA, UrlA >>

====
